---- MODULE Spec2Model ----
(***************************************************************************)
(* Connection pool of package graph (cloudcube/database): DB.Ping,         *)
(* DB.conn, DB.putConn, driverConn.Close, driverConn.finalClose and the    *)
(* dependency table (addDepLocked / removeDepLocked); and the package's    *)
(* driver registry (Register, Open).                                       *)
(*                                                                         *)
(* Goroutines call the package's operations concurrently.  A step of the   *)
(* model is one critical section of the code (from a Lock to the matching  *)
(* Unlock) or one backend call made outside the pool lock.  A panic leaves *)
(* the goroutine at pc = "panic" with whatever lock it held still held:    *)
(* the code unlocks explicitly, never by defer.                            *)
(***************************************************************************)
EXTENDS Integers, Sequences, FiniteSets, TLC

\* ----------------------------------------------------------------- bounds
NumProcs == 2
MaxConns == 2

Procs == 1..NumProcs
Conns == 1..MaxConns
NoConn == 0

\* The dependents of a wrapper: "self" is the wrapper itself (conn registers
\* dc as depending on dc), "stmt" an open statement prepared on it.
Stmts == {"stmt"}
Dependents == {"self"} \cup Stmts

\* The configured values of db.maxIdle.  Open leaves the field 0 and the
\* package has no setter for it: code of the package assigns the field
\* before the pool is used, and it does not change afterwards.
MaxIdleValues == {-1, 0, 1}

\* The err argument of putConn.
Errs == {"nil", "ErrBadConn", "other"}

\* The driver names and the driver values that Register and Open are called
\* with; NilDriver is the nil driver.Driver, NoDB the nil *DB.
Names == {"a", "b"}
Drivers == {"d1", "d2"}
NilDriver == "nilDriver"
NoDB == "nilDB"

\* ------------------------------------------------------------------ state
VARIABLES
  mu,          \* db.mu: 0 when free, else the goroutine holding it
  freeConn,    \* db.freeConn: sequence of wrappers
  dbClosed,    \* db.closed
  dep,         \* db.dep: function from the wrappers with an entry to their depSet
  maxIdle,     \* db.maxIdle
  conns,       \* the driverConn values that exist
  opened,      \* those of them that conn allocated
  dcmu,        \* driverConn's embedded Mutex: 0 when free, else its holder
  ci,          \* driverConn.ci # nil
  dcClosed,    \* driverConn.closed
  finalClosed, \* driverConn.finalClosed
  inUse,       \* driverConn.inUse
  dbmuClosed,  \* driverConn.dbmuClosed
  ciCloses,    \* number of times the backend connection's Close was invoked
  pc,          \* each goroutine's position
  op,          \* the operation each goroutine was asked to run
  dc,          \* the wrapper of the running call, or the one the idle goroutine holds
  err,         \* putConn's err argument
  ret,         \* what the call that finished last returned, or its panic
  drivers,     \* the package's drivers map: function from the registered names
  rpc,         \* each goroutine's position in Register or Open
  rname,       \* the name argument of its Register or Open
  rdrv,        \* the driver argument of its Register
  rret,        \* what its last Register or Open returned, or its panic
  rdb,         \* the driver field of the *DB its last Open returned, or NoDB
  depCall,     \* the last direct call of addDepLocked / removeDepLocked
  depPrev,     \* db.dep before that call
  depDone      \* whether the function that call returned calls x.finalClose()

poolVars == <<mu, freeConn, dbClosed, dep, maxIdle>>
connVars == <<conns, opened, dcmu, ci, dcClosed, finalClosed, inUse, dbmuClosed, ciCloses>>
procVars == <<pc, op, dc, err, ret>>
registryVars == <<drivers, rpc, rname, rdrv, rret, rdb>>
depCallVars == <<depCall, depPrev, depDone>>
vars == <<poolVars, connVars, procVars, registryVars, depCallVars>>

\* ---------------------------------------------------------------- helpers
defaultMaxIdleConns == 2

maxIdleConnsLocked ==
  IF maxIdle = 0 THEN defaultMaxIdleConns
  ELSE IF maxIdle < 0 THEN 0
  ELSE maxIdle

\* addDepLocked making a new set for x whether or not x has one.
addDepLockedReplaces(table, x, d) ==
  [y \in DOMAIN table \cup {x} |-> IF y = x THEN {d} ELSE table[y]]

\* db.addDepLocked(x, d): the table after the call.
addDepLocked(table, x, d) ==
  IF x \in DOMAIN table
    THEN [table EXCEPT ![x] = @ \cup {d}]
    ELSE [y \in DOMAIN table \cup {x} |-> IF y = x THEN {d} ELSE table[y]]

\* removeDepLocked without its delete(db.dep, x).
removeDepTableKeepsEntry(table, x, d) ==
  IF x \notin DOMAIN table THEN table
  ELSE [table EXCEPT ![x] = @ \ {d}]

\* db.removeDepLocked(x, d): the table after the call, and whether the
\* returned function is the one that calls x.finalClose().
removeDepTable(table, x, d) ==
  IF x \notin DOMAIN table THEN table
  ELSE IF table[x] \ {d} = {}
    THEN [y \in DOMAIN table \ {x} |-> table[y]]
    ELSE [table EXCEPT ![x] = @ \ {d}]

\* removeDepLocked without its len(xdep) == 0 test.
removeDepDoneAnyEntry(table, x, d) ==
  x \in DOMAIN table

removeDepDone(table, x, d) ==
  x \in DOMAIN table /\ table[x] \ {d} = {}

\* The wrapper conn's &driverConn{...} allocates: the next unused one.
NewConn == Cardinality(conns) + 1

\* The outermost call of goroutine p returns e, and the goroutine is idle
\* again, holding wrapper w: the one conn returned to it, or the one it
\* passed to the call; none after Ping, whose wrapper is Ping's own.
Return(p, w, e) ==
  /\ pc' = [pc EXCEPT ![p] = "idle"]
  /\ op' = [op EXCEPT ![p] = "none"]
  /\ dc' = [dc EXCEPT ![p] = IF op[p] = "Ping" THEN NoConn ELSE w]
  /\ err' = [err EXCEPT ![p] = "nil"]
  /\ ret' = e

\* Goroutine p panics with message m.
Panic(p, m) ==
  /\ pc' = [pc EXCEPT ![p] = "panic"]
  /\ ret' = m
  /\ UNCHANGED <<op, dc, err>>

\* ------------------------------------------------------------------- Init
\* No Register or Open call has been made, and the drivers map is empty.
InitRegistry ==
  /\ drivers = <<>>
  /\ rpc = [p \in Procs |-> "idle"]
  /\ rname = [p \in Procs |-> "a"]
  /\ rdrv = [p \in Procs |-> NilDriver]
  /\ rret = [p \in Procs |-> "none"]
  /\ rdb = [p \in Procs |-> NoDB]

\* No direct call on the dependency table has been made.
InitDepCall ==
  /\ depCall = [op |-> "none", x |-> NoConn, d |-> "self"]
  /\ depPrev = <<>>
  /\ depDone = FALSE

\* The pool Open returns, but for db.dep and db.maxIdle: no wrapper exists
\* and no goroutine is in a call.
InitPool ==
  /\ mu = 0
  /\ freeConn = <<>>
  /\ dbClosed = FALSE
  /\ conns = {}
  /\ opened = {}
  /\ dcmu = [w \in Conns |-> 0]
  /\ ci = [w \in Conns |-> FALSE]
  /\ dcClosed = [w \in Conns |-> FALSE]
  /\ finalClosed = [w \in Conns |-> FALSE]
  /\ inUse = [w \in Conns |-> FALSE]
  /\ dbmuClosed = [w \in Conns |-> FALSE]
  /\ ciCloses = [w \in Conns |-> 0]
  /\ pc = [p \in Procs |-> "idle"]
  /\ op = [p \in Procs |-> "none"]
  /\ dc = [p \in Procs |-> NoConn]
  /\ err = [p \in Procs |-> "nil"]
  /\ ret = "nil"

\* The pool as Open returned it, with db.maxIdle configured.  Spec follows
\* this one pool and not the registry it was opened from.
Init ==
  /\ InitPool
  /\ dep = <<>>
  /\ maxIdle \in MaxIdleValues
  /\ InitRegistry
  /\ InitDepCall

\* ------------------------------------------------------------ DB.Ping, conn
\* A goroutine calls db.Ping(): Ping's first statement is db.conn().
Ping(p) ==
  /\ pc[p] = "idle"
  /\ pc' = [pc EXCEPT ![p] = "conn"]
  /\ op' = [op EXCEPT ![p] = "Ping"]
  /\ dc' = [dc EXCEPT ![p] = NoConn]
  /\ UNCHANGED <<err, ret, poolVars, connVars>>
  /\ UNCHANGED <<registryVars, depCallVars>>

\* A goroutine calls db.conn() directly.
CallConn(p) ==
  /\ pc[p] = "idle"
  /\ pc' = [pc EXCEPT ![p] = "conn"]
  /\ op' = [op EXCEPT ![p] = "conn"]
  /\ dc' = [dc EXCEPT ![p] = NoConn]
  /\ UNCHANGED <<err, ret, poolVars, connVars>>
  /\ UNCHANGED <<registryVars, depCallVars>>

\* conn() has returned (w, e) to its caller: Ping goes on to putConn(dc, nil)
\* or returns the error; a direct caller gets the pair.
ConnReturn(p, w, e) ==
  IF op[p] = "Ping" /\ e = "nil"
    THEN /\ pc' = [pc EXCEPT ![p] = "putConn"]
         /\ dc' = [dc EXCEPT ![p] = w]
         /\ err' = [err EXCEPT ![p] = "nil"]
         /\ UNCHANGED <<op, ret>>
    ELSE Return(p, w, e)

\* conn() without its closed check.
connRefusesNever == FALSE

\* conn()'s test for refusing with "graph:database is closed".
connRefuses == dbClosed

\* conn() taking the first idle wrapper, freeConn[0].
connPickFirst == IF Len(freeConn) > 0 THEN 1 ELSE 0

\* The index of the idle wrapper conn() takes: n-1 in the code's 0-based
\* slice, the last element.
connPick == Len(freeConn)

\* conn() going to the driver's Open without db.mu.Unlock().
connMuAtOpenHeld(p) == p

\* The holder of db.mu when conn() goes on to the driver's Open: nobody,
\* conn() has called db.mu.Unlock().
connMuAtOpen(p) == 0

\* conn(), first critical section: closed check, then the pop of an idle
\* wrapper, else on to the driver's Open.
ConnLocked(p) ==
  /\ pc[p] = "conn"
  /\ mu = 0
  /\ IF connRefuses
       THEN /\ ConnReturn(p, NoConn, "closed")
            /\ UNCHANGED <<mu, freeConn, inUse>>
       ELSE IF Len(freeConn) > 0
         THEN LET n == Len(freeConn)
                  w == freeConn[connPick]
              IN /\ freeConn' = [i \in 1..(n - 1) |->
                                  IF i < connPick THEN freeConn[i] ELSE freeConn[i + 1]]
                 /\ inUse' = [inUse EXCEPT ![w] = TRUE]
                 /\ ConnReturn(p, w, "nil")
                 /\ UNCHANGED mu
         ELSE /\ pc' = [pc EXCEPT ![p] = "open"]
              /\ mu' = connMuAtOpen(p)
              /\ UNCHANGED <<op, dc, err, ret, freeConn, inUse>>
  /\ UNCHANGED <<dbClosed, dep, maxIdle>>
  /\ UNCHANGED <<conns, opened, dcmu, ci, dcClosed, finalClosed, dbmuClosed, ciCloses>>
  /\ UNCHANGED <<registryVars, depCallVars>>

\* conn() reporting a failure of the driver's Open as a closed pool.
connOpenErrorAsClosed(e) == "closed"

\* What conn() returns when the driver's Open returned error e: `return nil, err`.
connOpenError(e) == e

\* conn(): db.driver.Open(db.dsn), outside the pool lock, and the allocation
\* of the wrapper.  The driver may fail; it fails once MaxConns wrappers exist.
ConnOpen(p) ==
  /\ pc[p] = "open"
  /\ \/ /\ ConnReturn(p, NoConn, connOpenError("openerr"))
        /\ UNCHANGED <<conns, opened, ci>>
     \/ /\ NewConn \in Conns
        /\ conns' = conns \cup {NewConn}
        /\ opened' = opened \cup {NewConn}
        /\ ci' = [ci EXCEPT ![NewConn] = TRUE]
        /\ pc' = [pc EXCEPT ![p] = "register"]
        /\ dc' = [dc EXCEPT ![p] = NewConn]
        /\ UNCHANGED <<op, err, ret>>
  /\ UNCHANGED <<poolVars, dcmu, dcClosed, finalClosed, inUse, dbmuClosed, ciCloses>>
  /\ UNCHANGED <<registryVars, depCallVars>>

\* conn() returning a new wrapper without marking it in use.
connInUseUnset == FALSE

\* The value conn() gives the in-use flag of a new wrapper: dc.inUse = true.
connInUse == TRUE

\* conn(), second critical section: addDepLocked(dc, dc); dc.inUse = true.
ConnRegister(p) ==
  /\ pc[p] = "register"
  /\ mu = 0
  /\ dep' = addDepLocked(dep, dc[p], "self")
  /\ inUse' = [inUse EXCEPT ![dc[p]] = connInUse]
  /\ ConnReturn(p, dc[p], "nil")
  /\ UNCHANGED <<mu, freeConn, dbClosed, maxIdle>>
  /\ UNCHANGED <<conns, opened, dcmu, ci, dcClosed, finalClosed, dbmuClosed, ciCloses>>
  /\ UNCHANGED <<registryVars, depCallVars>>

\* ------------------------------------------------------------- DB.putConn
\* A goroutine calls db.putConn(dc, e) on the wrapper it holds.
CallPutConn(p, e) ==
  /\ pc[p] = "idle"
  /\ dc[p] # NoConn
  /\ pc' = [pc EXCEPT ![p] = "putConn"]
  /\ op' = [op EXCEPT ![p] = "putConn"]
  /\ err' = [err EXCEPT ![p] = e]
  /\ UNCHANGED <<dc, ret, poolVars, connVars>>
  /\ UNCHANGED <<registryVars, depCallVars>>

\* putConn's guard: the condition under which it panics with
\* "graph:connection returned that was never out".
putConnPanics(w) == inUse[w]

\* putConn's test with n <= max for n < max.
putConnKeepsOneMore == ~dbClosed /\ Len(freeConn) <= maxIdleConnsLocked

\* putConn's test for keeping the wrapper idle.
putConnKeeps == ~dbClosed /\ Len(freeConn) < maxIdleConnsLocked

\* putConn's critical section.  The panic happens with db.mu locked.
PutConnLocked(p) ==
  /\ pc[p] = "putConn"
  /\ mu = 0
  /\ LET w == dc[p] IN
     IF putConnPanics(w)
       THEN /\ Panic(p, "neverOut")
            /\ mu' = p
            /\ UNCHANGED <<freeConn, inUse>>
       ELSE /\ inUse' = [inUse EXCEPT ![w] = FALSE]
            /\ mu' = 0
            /\ IF err[p] = "ErrBadConn"
                 THEN /\ Return(p, w, "nil")
                      /\ UNCHANGED freeConn
                 ELSE IF putConnKeeps
                   THEN /\ freeConn' = Append(freeConn, w)
                        /\ Return(p, w, "nil")
                   ELSE /\ pc' = [pc EXCEPT ![p] = "close"]
                        /\ err' = [err EXCEPT ![p] = "nil"]
                        /\ UNCHANGED <<op, dc, ret, freeConn>>
  /\ UNCHANGED <<dbClosed, dep, maxIdle>>
  /\ UNCHANGED <<conns, opened, dcmu, ci, dcClosed, finalClosed, dbmuClosed, ciCloses>>
  /\ UNCHANGED <<registryVars, depCallVars>>

\* ------------------------------------------- driverConn.Close, finalClose
\* A goroutine calls dc.Close() on the wrapper it holds.
CallClose(p) ==
  /\ pc[p] = "idle"
  /\ dc[p] # NoConn
  /\ pc' = [pc EXCEPT ![p] = "close"]
  /\ op' = [op EXCEPT ![p] = "Close"]
  /\ UNCHANGED <<dc, err, ret, poolVars, connVars>>
  /\ UNCHANGED <<registryVars, depCallVars>>

\* Close() or the function removeDepLocked returned has returned e: putConn
\* drops the value and returns (and then Ping returns nil).
CloseReturn(p, e) ==
  IF op[p] \in {"putConn", "Ping"}
    THEN Return(p, dc[p], "nil")
    ELSE Return(p, dc[p], e)

\* Close() without its duplicate check.
closeIsDuplicateNever(w) == FALSE

\* Close()'s test for returning "graph: duplicate driverConn close".
closeIsDuplicate(w) == dcClosed[w]

\* Close() keeping the wrapper's lock until it returns (a deferred Unlock).
closeMuAtUnregisterHeld(p) == p

\* The holder of the wrapper's lock when Close() goes on to db.mu.Lock():
\* nobody, Close() has called dc.Unlock().
closeMuAtUnregister(p) == 0

\* Close(), under the wrapper's lock: the duplicate check and dc.closed = true.
CloseMark(p) ==
  /\ pc[p] = "close"
  /\ dcmu[dc[p]] = 0
  /\ IF closeIsDuplicate(dc[p])
       THEN /\ CloseReturn(p, "duplicate")
            /\ UNCHANGED <<dcClosed, dcmu>>
       ELSE /\ dcClosed' = [dcClosed EXCEPT ![dc[p]] = TRUE]
            /\ dcmu' = [dcmu EXCEPT ![dc[p]] = closeMuAtUnregister(p)]
            /\ pc' = [pc EXCEPT ![p] = "unregister"]
            /\ UNCHANGED <<op, dc, err, ret>>
  /\ UNCHANGED <<poolVars, conns, opened, ci, finalClosed, inUse, dbmuClosed, ciCloses>>
  /\ UNCHANGED <<registryVars, depCallVars>>

\* Close(), under the pool's lock: dbmuClosed = true and
\* fn := removeDepLocked(dc, dc); then fn() is called with no lock held.
CloseUnregister(p) ==
  /\ pc[p] = "unregister"
  /\ mu = 0
  /\ dbmuClosed' = [dbmuClosed EXCEPT ![dc[p]] = TRUE]
  /\ dep' = removeDepTable(dep, dc[p], "self")
  /\ IF removeDepDone(dep, dc[p], "self")
       THEN /\ pc' = [pc EXCEPT ![p] = "finalClose"]
            /\ UNCHANGED <<op, dc, err, ret>>
       ELSE CloseReturn(p, "nil")
  /\ UNCHANGED <<mu, freeConn, dbClosed, maxIdle>>
  /\ UNCHANGED <<conns, opened, dcmu, ci, dcClosed, finalClosed, inUse, ciCloses>>
  /\ UNCHANGED <<registryVars, depCallVars>>

\* finalClose(): dc.Lock(), the loop over dc.openStmt (which no code of the
\* package fills) and dc.openStmt = nil.
FinalCloseLock(p) ==
  /\ pc[p] = "finalClose"
  /\ dcmu[dc[p]] = 0
  /\ dcmu' = [dcmu EXCEPT ![dc[p]] = p]
  /\ pc' = [pc EXCEPT ![p] = "ciClose"]
  /\ UNCHANGED <<op, dc, err, ret, poolVars>>
  /\ UNCHANGED <<conns, opened, ci, dcClosed, finalClosed, inUse, dbmuClosed, ciCloses>>
  /\ UNCHANGED <<registryVars, depCallVars>>

\* finalClose(): err := dc.ci.Close(); dc.ci = nil; dc.finalClosed = true;
\* dc.Unlock().  With dc.ci already nil the call is a nil dereference, and
\* the panic leaves the wrapper locked.
FinalCloseCi(p) ==
  /\ pc[p] = "ciClose"
  /\ LET w == dc[p] IN
     IF ~ci[w]
       THEN /\ Panic(p, "nilDeref")
            /\ UNCHANGED <<dcmu, ci, finalClosed, ciCloses>>
       ELSE /\ ciCloses' = [ciCloses EXCEPT ![w] = @ + 1]
            /\ ci' = [ci EXCEPT ![w] = FALSE]
            /\ finalClosed' = [finalClosed EXCEPT ![w] = TRUE]
            /\ dcmu' = [dcmu EXCEPT ![w] = 0]
            /\ \E e \in {"nil", "closeerr"} : CloseReturn(p, e)
  /\ UNCHANGED <<poolVars, conns, opened, dcClosed, inUse, dbmuClosed>>
  /\ UNCHANGED <<registryVars, depCallVars>>

\* ------------------------------------------------------- the dependency table
\* A goroutine prepares a statement on the wrapper it holds, which is still
\* pinned open: under the pool's lock, db.addDepLocked(dc, s).
AddDep(p, s) ==
  /\ pc[p] = "idle"
  /\ mu = 0
  /\ dc[p] \in DOMAIN dep
  /\ dep' = addDepLocked(dep, dc[p], s)
  /\ UNCHANGED <<mu, freeConn, dbClosed, maxIdle, connVars, procVars>>
  /\ UNCHANGED <<registryVars, depCallVars>>

\* A goroutine closes a statement of the wrapper it holds: under the pool's
\* lock fn := db.removeDepLocked(dc, s), then fn() with no lock held.
RemoveDep(p, s) ==
  /\ pc[p] = "idle"
  /\ mu = 0
  /\ dc[p] # NoConn
  /\ dep' = removeDepTable(dep, dc[p], s)
  /\ IF removeDepDone(dep, dc[p], s)
       THEN /\ pc' = [pc EXCEPT ![p] = "finalClose"]
            /\ op' = [op EXCEPT ![p] = "removeDep"]
            /\ UNCHANGED <<dc, err, ret>>
       ELSE /\ ret' = "nil"
            /\ UNCHANGED <<pc, op, dc, err>>
  /\ UNCHANGED <<mu, freeConn, dbClosed, maxIdle, connVars>>
  /\ UNCHANGED <<registryVars, depCallVars>>

\* ------------------------------------------------------------ the callers
\* A goroutine builds a driverConn value itself, &driverConn{db: db, ci: ci}:
\* every other field has its zero value (inUse is false), and the wrapper
\* has no entry in db.dep.
NewDriverConn(p) ==
  /\ pc[p] = "idle"
  /\ NewConn \in Conns
  /\ conns' = conns \cup {NewConn}
  /\ ci' = [ci EXCEPT ![NewConn] = TRUE]
  /\ dc' = [dc EXCEPT ![p] = NewConn]
  /\ UNCHANGED <<poolVars, pc, op, err, ret>>
  /\ UNCHANGED <<opened, dcmu, dcClosed, finalClosed, inUse, dbmuClosed, ciCloses>>
  /\ UNCHANGED <<registryVars, depCallVars>>

\* ---------------------------------------------------------------- DB.Close
\* The pool's Close marking the pool closed and leaving the idle wrappers
\* as they are.
DBCloseMarksOnly ==
  /\ mu = 0
  /\ ~dbClosed
  /\ dbClosed' = TRUE
  /\ UNCHANGED <<mu, freeConn, dep, maxIdle, connVars, procVars>>
  /\ UNCHANGED <<registryVars, depCallVars>>

\* The pool's Close, as one step: the backend connection of every
\* idle wrapper is closed (the wrapper is closed, finally closed, and has no
\* entry in the dependency table afterwards), the idle list is emptied and
\* the pool is marked closed.
DBClose ==
  /\ mu = 0
  /\ ~dbClosed
  /\ LET idle == {freeConn[i] : i \in 1..Len(freeConn)}
     IN /\ dcClosed' = [w \in Conns |-> dcClosed[w] \/ w \in idle]
        /\ dbmuClosed' = [w \in Conns |-> dbmuClosed[w] \/ w \in idle]
        /\ dep' = [w \in DOMAIN dep \ idle |-> dep[w]]
        /\ ci' = [w \in Conns |-> ci[w] /\ w \notin idle]
        /\ finalClosed' = [w \in Conns |-> finalClosed[w] \/ w \in idle]
        /\ ciCloses' = [w \in Conns |->
                          IF w \in idle /\ ci[w] THEN ciCloses[w] + 1 ELSE ciCloses[w]]
  /\ freeConn' = <<>>
  /\ dbClosed' = TRUE
  /\ UNCHANGED <<mu, maxIdle, conns, opened, dcmu, inUse, procVars>>
  /\ UNCHANGED <<registryVars, depCallVars>>

\* ------------------------------------------------------------------- Next
Next ==
  \/ \E p \in Procs :
       \/ Ping(p)
       \/ CallConn(p)
       \/ ConnLocked(p)
       \/ ConnOpen(p)
       \/ ConnRegister(p)
       \/ \E e \in Errs : CallPutConn(p, e)
       \/ PutConnLocked(p)
       \/ CallClose(p)
       \/ CloseMark(p)
       \/ CloseUnregister(p)
       \/ FinalCloseLock(p)
       \/ FinalCloseCi(p)
       \/ \E s \in Stmts : AddDep(p, s)
       \/ \E s \in Stmts : RemoveDep(p, s)
       \/ NewDriverConn(p)
  \/ DBClose

Spec == Init /\ [][Next]_vars

\* ------------------------------------------------------ Register and Open
\* Goroutine p's Register or Open is over, with result e and, from Open,
\* the pool whose driver is h.
RegistryReturn(p, e, h) ==
  /\ rpc' = [rpc EXCEPT ![p] = "idle"]
  /\ rret' = [rret EXCEPT ![p] = e]
  /\ rdb' = [rdb EXCEPT ![p] = h]

\* Goroutine p panics in Register with message m.
RegistryPanic(p, m) ==
  /\ rpc' = [rpc EXCEPT ![p] = "panic"]
  /\ rret' = [rret EXCEPT ![p] = m]
  /\ UNCHANGED rdb

\* A goroutine calls Register(n, d): `if driver == nil { panic(...) }`.
CallRegister(p, n, d) ==
  /\ rpc[p] = "idle"
  /\ rname' = [rname EXCEPT ![p] = n]
  /\ rdrv' = [rdrv EXCEPT ![p] = d]
  /\ IF d = NilDriver
       THEN RegistryPanic(p, "nilDriver")
       ELSE /\ rpc' = [rpc EXCEPT ![p] = "regDup"]
            /\ UNCHANGED <<rret, rdb>>
  /\ UNCHANGED <<drivers, poolVars, connVars, procVars, depCallVars>>

\* Register without its test for a name registered before.
registerDupNever(n) == FALSE

\* Register's test `_, dup := drivers[name]; dup`.
registerDup(n) == n \in DOMAIN drivers

\* Register: the read of drivers[name] and the panic for a second
\* registration of the name.
RegisterCheck(p) ==
  /\ rpc[p] = "regDup"
  /\ IF registerDup(rname[p])
       THEN RegistryPanic(p, "twice")
       ELSE /\ rpc' = [rpc EXCEPT ![p] = "regWrite"]
            /\ UNCHANGED <<rret, rdb>>
  /\ UNCHANGED <<drivers, rname, rdrv, poolVars, connVars, procVars, depCallVars>>

\* Register: drivers[name] = driver, and the return.
RegisterWrite(p) ==
  /\ rpc[p] = "regWrite"
  /\ drivers' = [n \in DOMAIN drivers \cup {rname[p]} |->
                   IF n = rname[p] THEN rdrv[p] ELSE drivers[n]]
  /\ RegistryReturn(p, "registered", NoDB)
  /\ UNCHANGED <<rname, rdrv, poolVars, connVars, procVars, depCallVars>>

\* A goroutine calls Open(n, dsn).
CallOpen(p, n) ==
  /\ rpc[p] = "idle"
  /\ rname' = [rname EXCEPT ![p] = n]
  /\ rpc' = [rpc EXCEPT ![p] = "lookup"]
  /\ UNCHANGED <<drivers, rdrv, rret, rdb, poolVars, connVars, procVars, depCallVars>>

\* Open binding the pool to some other registered driver than the name's.
openDriverOther(n) ==
  IF \E m \in DOMAIN drivers : drivers[m] # drivers[n]
    THEN CHOOSE d \in Drivers : \E m \in DOMAIN drivers : drivers[m] = d /\ d # drivers[n]
    ELSE drivers[n]

\* The driver Open binds the pool to: driveri of `driveri, ok := drivers[driverName]`.
openDriver(n) == drivers[n]

\* Open: the read of drivers[driverName]; the error for an unknown name, else
\* the &DB{driver: driveri, ...} it returns.  It makes no call of the driver.
OpenLookup(p) ==
  /\ rpc[p] = "lookup"
  /\ IF rname[p] \in DOMAIN drivers
       THEN RegistryReturn(p, "nil", openDriver(rname[p]))
       ELSE RegistryReturn(p, "unknownDriver", NoDB)
  /\ UNCHANGED <<drivers, rname, rdrv, poolVars, connVars, procVars, depCallVars>>

\* The drivers map is a plain Go map that Register and Open access with no
\* lock.  A write of it that runs while another goroutine is about to write
\* it or to read it is a data race: besides the two orders of the accesses,
\* which RegisterWrite, RegisterCheck and OpenLookup give, the runtime may
\* end the whole process ("fatal error: concurrent map writes", or
\* "concurrent map read and map write").
MapFault(p) ==
  /\ rpc[p] = "regWrite"
  /\ \E q \in Procs \ {p} : rpc[q] \in {"regDup", "regWrite", "lookup"}
  /\ rpc' = [q \in Procs |-> "fatal"]
  /\ UNCHANGED <<drivers, rname, rdrv, rret, rdb, poolVars, connVars, procVars, depCallVars>>

\* Register and Open before any pool is used; db.maxIdle has the zero value
\* Open leaves it.
RegistryInit ==
  /\ InitPool
  /\ dep = <<>>
  /\ maxIdle = 0
  /\ InitRegistry
  /\ InitDepCall

\* The calls of one goroutine's Register and Open, one after the other (the
\* package's init-time use: registration before concurrent use begins).
RegistryStep(p) ==
  \/ \E n \in Names : \E d \in Drivers \cup {NilDriver} : CallRegister(p, n, d)
  \/ RegisterCheck(p)
  \/ RegisterWrite(p)
  \/ \E n \in Names : CallOpen(p, n)
  \/ OpenLookup(p)

RegistryNext == RegistryStep(1)

SpecRegistry == RegistryInit /\ [][RegistryNext]_vars

\* Register and Open called by several goroutines at once.
RegistryConcurrentNext ==
  \E p \in Procs :
    \/ RegistryStep(p)
    \/ MapFault(p)

SpecRegistryConcurrent == RegistryInit /\ [][RegistryConcurrentNext]_vars

\* ------------------------------------- addDepLocked, removeDepLocked alone
\* The dependency tables the code can build: every entry is a non-empty set,
\* removeDepLocked deletes the entry of a set it empties.
DepTables ==
  UNION {[S -> (SUBSET Dependents) \ {{}}] : S \in SUBSET Conns}

\* Any dependency table, no call made on it yet.
DepInit ==
  /\ InitPool
  /\ dep \in DepTables
  /\ maxIdle = 0
  /\ InitRegistry
  /\ depCall = [op |-> "none", x |-> NoConn, d |-> "self"]
  /\ depPrev = dep
  /\ depDone = FALSE

\* db.addDepLocked(x, d).
DepAdd(x, d) ==
  /\ depCall' = [op |-> "add", x |-> x, d |-> d]
  /\ depPrev' = dep
  /\ dep' = addDepLocked(dep, x, d)
  /\ depDone' = FALSE
  /\ UNCHANGED <<mu, freeConn, dbClosed, maxIdle, connVars, procVars, registryVars>>

\* fn := db.removeDepLocked(x, d).
DepRemove(x, d) ==
  /\ depCall' = [op |-> "remove", x |-> x, d |-> d]
  /\ depPrev' = dep
  /\ dep' = removeDepTable(dep, x, d)
  /\ depDone' = removeDepDone(dep, x, d)
  /\ UNCHANGED <<mu, freeConn, dbClosed, maxIdle, connVars, procVars, registryVars>>

DepNext ==
  \E x \in Conns : \E d \in Dependents :
    \/ DepAdd(x, d)
    \/ DepRemove(x, d)

SpecDep == DepInit /\ [][DepNext]_vars

\* ================================================================ claims
\* The wrappers on the idle list.
IdleSet == {freeConn[i] : i \in 1..Len(freeConn)}

\* Goroutine p takes the step that leaves position at.
Leaves(p, at) == pc[p] = at /\ pc'[p] # at

\* C1: putConn of a wrapper conn() returned fails fatally exactly when the
\* wrapper's in-use flag is already false at the time of the call; the
\* release of a wrapper that is in use does not fail and clears the flag.
C1_PutConnPanicsOnlyOnDoubleRelease ==
  [][\A p \in Procs :
       (Leaves(p, "putConn") /\ dc[p] \in opened) =>
         /\ (pc'[p] = "panic") <=> ~inUse[dc[p]]
         /\ inUse[dc[p]] => ~inUse'[dc[p]]]_vars

\* C2: a Ping whose conn() succeeded does not fail fatally, returns nil, and
\* on its return the wrapper it acquired is not in use.
C2_PingReleasesWhatItAcquired ==
  [][\A p \in Procs :
       op[p] = "Ping" =>
         /\ pc'[p] # "panic"
         /\ (pc[p] \notin {"conn", "open"} /\ pc'[p] = "idle") =>
              (ret' = "nil" /\ ~inUse'[dc[p]])]_vars

\* The effective maximum of the idle list, as the claim states it.
EffectiveMaxIdle ==
  CASE maxIdle = 0 -> 2
    [] maxIdle < 0 -> 0
    [] OTHER -> maxIdle

C4_NoIdleWrapperInUse == \A w \in IdleSet : ~inUse[w]

\* C5: with the idle list non-empty conn() returns its last element, removes
\* exactly that element, keeps the others in their order and does not go to
\* the driver's Open; and a release only ever adds at the end of the list, so
\* that the last element is the wrapper released most recently.
C5_LIFO ==
  [][/\ \A p \in Procs :
          (Leaves(p, "conn") /\ ~dbClosed /\ Len(freeConn) > 0) =>
            /\ dc'[p] = freeConn[Len(freeConn)]
            /\ freeConn' = SubSeq(freeConn, 1, Len(freeConn) - 1)
            /\ inUse'[dc'[p]]
            /\ pc'[p] \in {"idle", "putConn"}
            /\ conns' = conns
     /\ Len(freeConn') > Len(freeConn) =>
          \E p \in Procs : Leaves(p, "putConn") /\ freeConn' = Append(freeConn, dc[p])]_vars

\* C5's case: conn() has returned, from an idle list of two, the wrapper
\* released last (wrapper 2 was put after wrapper 1, which is still idle).
C5_Witness ==
  \E p \in Procs :
    /\ pc[p] = "idle" /\ dc[p] = 2 /\ inUse[2]
    /\ 2 \notin opened
    /\ freeConn = <<1>>

\* C6: after the release of a wrapper with the bad-connection sentinel the
\* idle list does not hold that wrapper (so no later conn() returns it).
C6_BadConnNeverIdle ==
  [][\A p \in Procs :
       (Leaves(p, "putConn") /\ err[p] = "ErrBadConn") => dc[p] \notin IdleSet']_vars

\* C7: a release with the bad-connection sentinel returns only with the
\* wrapper logically closed and, if no dependent is left, its backend
\* connection closed.
C7_BadConnTornDown ==
  [][\A p \in Procs :
       (pc[p] = "putConn" /\ err[p] = "ErrBadConn" /\ pc'[p] = "idle") =>
         /\ dcClosed'[dc[p]]
         /\ dc[p] \notin DOMAIN dep' => finalClosed'[dc[p]]]_vars

\* C8: a wrapper with a dependent left is not finally closed: its logical
\* Close(), with a statement still registered, removes the wrapper from its
\* own dependents and returns nil without going on to finalClose; the backend
\* connection is closed only once the table has no entry for the wrapper, by
\* the goroutine that removed the last dependent, and at most once.
C8_DependencyGatedClose ==
  /\ [](\A w \in Conns :
          /\ w \in DOMAIN dep => (ciCloses[w] = 0 /\ ~finalClosed[w] /\ ci[w])
          /\ ciCloses[w] <= 1
          /\ (w \in opened /\ dbmuClosed[w] /\ w \notin DOMAIN dep) =>
               \/ finalClosed[w] /\ ciCloses[w] = 1
               \/ \E p \in Procs : pc[p] \in {"finalClose", "ciClose"} /\ dc[p] = w)
  /\ [][\A p \in Procs :
          (Leaves(p, "unregister") /\ dc[p] \in DOMAIN dep /\ dep[dc[p]] \ {"self"} # {}) =>
            /\ pc'[p] = "idle"
            /\ dep' = [dep EXCEPT ![dc[p]] = @ \ {"self"}]
            /\ UNCHANGED <<ci, finalClosed, ciCloses>>]_vars

\* C8's case: the wrapper was logically closed while a statement depended on
\* it, without its backend connection being closed; the statement has been
\* removed since, and the goroutine that removed it is in finalClose, about
\* to close the backend connection.
C8_Witness ==
  \E p \in Procs :
    /\ op[p] = "removeDep" /\ pc[p] = "ciClose"
    /\ dc[p] \in opened /\ dcClosed[dc[p]] /\ dbmuClosed[dc[p]]
    /\ dcmu[dc[p]] = p /\ ci[dc[p]] /\ ciCloses[dc[p]] = 0

\* C9: a second Close() of a wrapper returns the duplicate-close error and
\* changes nothing of the pool or of any wrapper: the backend connection's
\* Close is not invoked again.
C9_DuplicateClose ==
  [][\A p \in Procs :
       (Leaves(p, "close") /\ dcClosed[dc[p]]) =>
         /\ pc'[p] = "idle"
         /\ op[p] = "Close" => ret' = "duplicate"
         /\ UNCHANGED <<poolVars, connVars>>]_vars

\* C9's case: a Close() has returned the duplicate-close error.
C9_Witness ==
  \E p \in Procs :
    /\ pc[p] = "idle" /\ ret = "duplicate" /\ dc[p] # NoConn /\ dcClosed[dc[p]]

\* C10: once the pool is closed it stays closed, and every conn(), a Ping's
\* included, returns the pool-closed error in its first critical section:
\* it does not go on to the driver's Open, allocates no wrapper, and leaves
\* the idle list, the dependency table and every wrapper as they were.
C10_ClosedPoolRejects ==
  [][/\ dbClosed => dbClosed'
     /\ \A p \in Procs :
          (Leaves(p, "conn") /\ dbClosed) =>
            /\ pc'[p] = "idle" /\ ret' = "closed" /\ dc'[p] = NoConn
            /\ UNCHANGED <<poolVars, connVars>>]_vars

\* C10's case: on a closed pool a call has returned the pool-closed error.
C10_Witness ==
  /\ dbClosed /\ ret = "closed"
  /\ \E p \in Procs : pc[p] = "idle" /\ dc[p] = NoConn

\* C11: the pool's Close invokes the backend Close of every wrapper on the
\* idle list, once each, leaves those wrappers closed and finally closed and
\* the idle list empty, and marks the pool closed; from then on the idle
\* list stays empty and every conn() returns the pool-closed error and no
\* wrapper.
C11_PoolCloseDrainsIdle ==
  /\ [](dbClosed => freeConn = <<>>)
  /\ [][/\ (~dbClosed /\ dbClosed') =>
             /\ freeConn' = <<>>
             /\ \A w \in IdleSet :
                  /\ ciCloses'[w] = ciCloses[w] + 1
                  /\ ~ci'[w] /\ dcClosed'[w] /\ finalClosed'[w]
             /\ \A w \in Conns \ IdleSet : ciCloses'[w] = ciCloses[w]
        /\ \A p \in Procs :
             (Leaves(p, "conn") /\ dbClosed) => (ret' = "closed" /\ dc'[p] = NoConn)]_vars

\* C11's case: the pool was closed with a wrapper idle, whose backend
\* connection the Close has closed, and a later conn() was rejected.
C11_Witness ==
  /\ dbClosed /\ ret = "closed"
  /\ \E w \in conns : w \notin opened /\ finalClosed[w] /\ ciCloses[w] = 1 /\ ~inUse[w]

\* C14: when the driver's Open fails, conn() returns the driver's error and
\* no wrapper, and neither its first critical section (which found no idle
\* wrapper) nor the failed Open changes the pool or any wrapper: the idle
\* list, the dependency table and every in-use flag are as they were, and no
\* wrapper was allocated.
C14_OpenFailureLeavesPool ==
  [][\A p \in Procs :
       /\ (pc[p] = "conn" /\ pc'[p] = "open") => UNCHANGED <<poolVars, connVars>>
       /\ (Leaves(p, "open") /\ pc'[p] # "register") =>
            /\ pc'[p] = "idle" /\ ret' = "openerr" /\ dc'[p] = NoConn
            /\ UNCHANGED <<poolVars, connVars>>]_vars

\* C14's case: a conn() whose driver Open failed has returned the driver's
\* error and no wrapper.
C14_Witness ==
  \E p \in Procs : pc[p] = "idle" /\ ret = "openerr" /\ dc[p] = NoConn

\* The wrappers conn() has allocated and returned to its caller.
Created == {w \in opened : ~\E p \in Procs : pc[p] = "register" /\ dc[p] = w}

\* The four states of a wrapper: final-closed; closed-pending-final
\* (logically closed, backend connection not yet closed); idle (on the idle
\* list); in-use (flag set, and not logically closed: a logical close of a
\* wrapper in use takes it to closed-pending-final).
StateFinal(w) == finalClosed[w]
StatePending(w) == dcClosed[w] /\ ~finalClosed[w]
StateIdle(w) == w \in IdleSet
StateInUse(w) == inUse[w] /\ ~dcClosed[w]
StatesOf(w) ==
  {st \in {"idle", "inUse", "pending", "final"} :
     \/ st = "idle" /\ StateIdle(w)
     \/ st = "inUse" /\ StateInUse(w)
     \/ st = "pending" /\ StatePending(w)
     \/ st = "final" /\ StateFinal(w)}

WantsPoolLock(p) == pc[p] \in {"conn", "register", "putConn", "unregister"}
WantsWrapperLock(p) == pc[p] \in {"close", "finalClose"}
HoldsWrapperLock(p) == \E w \in Conns : dcmu[w] = p

\* Goroutine p is blocked in a Lock() of a lock that goroutine q holds.
WaitsFor(p, q) ==
  \/ WantsPoolLock(p) /\ mu = q
  \/ WantsWrapperLock(p) /\ dcmu[dc[p]] = q

\* C17: a goroutine about to lock the pool holds no wrapper's lock, one
\* about to lock a wrapper does not hold the pool's lock, and a goroutine
\* between calls holds neither; so no goroutine is blocked on a lock whose
\* holder is itself blocked on a lock (no cycle of waiting goroutines, a
\* goroutine waiting for itself included).
C17_LockOrder ==
  /\ \A p \in Procs :
       /\ WantsPoolLock(p) => ~HoldsWrapperLock(p)
       /\ WantsWrapperLock(p) => mu # p
       /\ pc[p] = "idle" => (mu # p /\ ~HoldsWrapperLock(p))
  /\ \A p, q \in Procs : WaitsFor(p, q) => ~\E r \in Procs : WaitsFor(q, r)

\* C17's case: a Close() has released the wrapper's lock and is about to
\* lock the pool, while another goroutine, in finalClose, holds the lock of
\* its wrapper.
C17_Witness ==
  \E p, q \in Procs :
    /\ pc[p] = "unregister" /\ dcClosed[dc[p]] /\ dcmu[dc[p]] = 0
    /\ pc[q] = "ciClose" /\ dcmu[dc[q]] = q

\* C18: a goroutine in a backend call, the driver's Open or the backend
\* connection's Close, does not hold the pool's lock.
C18_NoIOUnderPoolLock ==
  \A p \in Procs : pc[p] \in {"open", "ciClose"} => mu # p

\* C18's case: one goroutine is in the driver's Open and another in the
\* Close of a backend connection, both after their critical sections.
C18_Witness ==
  \E p, q \in Procs :
    /\ pc[p] = "open" /\ op[p] \in {"conn", "Ping"}
    /\ pc[q] = "ciClose" /\ op[q] = "Close" /\ ci[dc[q]]

\* C19: the backend Close of a wrapper is invoked at most once; it is
\* invoked only by finalClose, by the goroutine whose removeDepLocked
\* emptied and deleted the wrapper's dependency set, which has stayed
\* deleted (a set is only ever created by conn(), for the new wrapper it
\* registers); and every removal that empties the set of a wrapper sends the
\* remover to that wrapper's finalClose.  (The pool's own Close is not one
\* of the calls the claim is about.)
C19_BackendCloseOnce ==
  /\ [](\A w \in Conns : ciCloses[w] <= 1)
  /\ [][(dbClosed' = dbClosed) =>
          \A w \in Conns :
            /\ ciCloses'[w] # ciCloses[w] =>
                 /\ ciCloses[w] = 0 /\ ciCloses'[w] = 1
                 /\ w \in opened /\ w \notin DOMAIN dep
                 /\ \E p \in Procs : pc[p] = "ciClose" /\ dc[p] = w /\ pc'[p] = "idle"
            /\ (w \in DOMAIN dep /\ w \notin DOMAIN dep') =>
                 \E p \in Procs : pc[p] # "finalClose" /\ pc'[p] = "finalClose" /\ dc'[p] = w
            /\ (\E p \in Procs : pc[p] # "finalClose" /\ pc'[p] = "finalClose" /\ dc'[p] = w) =>
                 (w \in DOMAIN dep /\ w \notin DOMAIN dep')
            /\ (w \notin DOMAIN dep /\ w \in DOMAIN dep') =>
                 \E p \in Procs : pc[p] = "register" /\ dc[p] = w /\ ciCloses[w] = 0]_vars

\* C19's case: the backend connection of a wrapper conn() created has been
\* closed, once, by a Close() that removed the last dependent.
C19_Witness ==
  \E p \in Procs :
    /\ pc[p] = "idle" /\ dc[p] \in opened
    /\ finalClosed[dc[p]] /\ ciCloses[dc[p]] = 1 /\ ~ci[dc[p]]
    /\ dc[p] \notin DOMAIN dep

\* Goroutine p's step leaves position at of Register or Open.
RegistryLeaves(p, at) == rpc[p] = at /\ rpc'[p] # at

\* The registered entries stay as they are: none is removed, none changed.
EntriesKept ==
  \A n \in DOMAIN drivers : n \in DOMAIN drivers' /\ drivers'[n] = drivers[n]

\* C12: Open with a name that has no entry in the registry returns the
\* unknown-driver error and no pool; with a registered name it returns, with
\* no error, a pool bound to the driver registered under that name.  Either
\* way Open leaves the registry as it was and makes no backend connection:
\* no wrapper and no pool state changes.
C12_Open ==
  [][\A p \in Procs :
       /\ (rpc[p] = "idle" /\ rpc'[p] = "lookup") =>
            (drivers' = drivers /\ UNCHANGED <<poolVars, connVars>>)
       /\ RegistryLeaves(p, "lookup") =>
            /\ rpc'[p] = "idle"
            /\ drivers' = drivers
            /\ UNCHANGED <<poolVars, connVars>>
            /\ IF rname[p] \in DOMAIN drivers
                 THEN rret'[p] = "nil" /\ rdb'[p] = drivers[rname[p]]
                 ELSE rret'[p] = "unknownDriver" /\ rdb'[p] = NoDB]_vars

\* C12's case: with two drivers registered under two names, an Open has
\* returned a pool bound to the driver of its name; no wrapper exists.
C12_Witness ==
  \E p \in Procs :
    /\ rpc[p] = "idle" /\ rret[p] = "nil"
    /\ rname[p] \in DOMAIN drivers /\ rdb[p] = drivers[rname[p]]
    /\ \E n \in DOMAIN drivers : drivers[n] # rdb[p]
    /\ conns = {}

\* C13: Register panics exactly when the driver is nil or the name has an
\* entry already, and then leaves the registry as it was; otherwise it adds
\* the entry name -> driver and nothing else.  No step removes or changes an
\* entry.
C13_Register ==
  [][/\ EntriesKept
     /\ \A p \in Procs :
          /\ (rpc[p] = "idle" /\ rpc'[p] \in {"panic", "regDup"}) =>
               /\ (rpc'[p] = "panic") <=> (rdrv'[p] = NilDriver)
               /\ drivers' = drivers
          /\ RegistryLeaves(p, "regDup") =>
               /\ (rpc'[p] = "panic") <=> (rname[p] \in DOMAIN drivers)
               /\ rpc'[p] \in {"panic", "regWrite"}
               /\ drivers' = drivers
          /\ RegistryLeaves(p, "regWrite") =>
               /\ rpc'[p] = "idle"
               /\ rname[p] \notin DOMAIN drivers
               /\ DOMAIN drivers' = DOMAIN drivers \cup {rname[p]}
               /\ drivers'[rname[p]] = rdrv[p]]_vars

\* C13's case: a Register of a name that was registered before, with another
\* driver, has panicked, and the name still has the driver registered first.
C13_Witness ==
  \E p \in Procs :
    /\ rpc[p] = "panic" /\ rret[p] = "twice"
    /\ rname[p] \in DOMAIN drivers /\ rdrv[p] \in Drivers
    /\ drivers[rname[p]] # rdrv[p]

\* C15: with Register and Open called concurrently the registry is not
\* corrupted (no access of the map faults), no Register succeeds for a name
\* that has an entry (so two concurrent Registers of one name do not both
\* succeed), and an entry never changes (so a lookup only ever finds the
\* driver registered first).
C15_ConcurrentRegistry ==
  [][/\ \A p \in Procs : rpc'[p] # "fatal"
     /\ EntriesKept
     /\ \A p \in Procs :
          (rpc[p] = "regWrite" /\ rpc'[p] = "idle") => rname[p] \notin DOMAIN drivers]_vars

\* C20: addDepLocked(x, d) leaves x with its former dependents and d, and a
\* second addDepLocked(x, d) changes nothing; the function removeDepLocked(x, d)
\* returns calls x's finalClose exactly when x had an entry and the removal
\* emptied it, and then x's entry is deleted; when dependents are left they
\* are x's former ones but d, and when x had no entry the table is as it was;
\* no call touches the entry of another wrapper.
C20_DepTable ==
  LET x == depCall.x
      d == depCall.d
      had == x \in DOMAIN depPrev
      old == IF had THEN depPrev[x] ELSE {}
  IN /\ \A y \in Conns \ {x} :
          /\ y \in DOMAIN dep <=> y \in DOMAIN depPrev
          /\ y \in DOMAIN dep => dep[y] = depPrev[y]
     /\ depCall.op = "add" =>
          /\ x \in DOMAIN dep /\ dep[x] = old \cup {d}
          /\ addDepLocked(dep, x, d) = dep
          /\ ~depDone
     /\ depCall.op = "remove" =>
          /\ depDone <=> (had /\ old \ {d} = {})
          /\ depDone => x \notin DOMAIN dep
          /\ (had /\ ~depDone) => (x \in DOMAIN dep /\ dep[x] = old \ {d})
          /\ ~had => x \notin DOMAIN dep

\* C20's case: removeDepLocked has removed the last dependent of a wrapper,
\* deleted the wrapper's entry and returned the function that calls
\* finalClose, while another wrapper still has its dependents.
C20_Witness ==
  /\ depCall.op = "remove" /\ depDone
  /\ depCall.x \in DOMAIN depPrev /\ depCall.x \notin DOMAIN dep
  /\ depPrev[depCall.x] = {depCall.d}
  /\ DOMAIN dep # {}

\* C21: the idle list holds each wrapper at most once (so no two later
\* conn() calls pop the same wrapper), whatever conn and putConn calls were
\* made, a putConn of a wrapper that is not in use included.
C21_IdleListNoDuplicates ==
  \A i, j \in 1..Len(freeConn) : i # j => freeConn[i] # freeConn[j]

====
